---- MODULE Spec2Model ----
(***************************************************************************)
(* The "command" IP source of caddy-dynamicdns (src/command.go): a Command *)
(* is configured, provisioned, and then asked for the machine's public     *)
(* addresses by GetIPs, which runs an external program under a deadline,   *)
(* parses its standard output as a comma separated list of addresses and   *)
(* filters it by address family and range.                                 *)
(*                                                                         *)
(* Text is modelled as a sequence of symbols.  A symbol is a white space   *)
(* character, the comma, or a word: a maximal run of bytes that are        *)
(* neither, so two words are never adjacent in a text.                     *)
(***************************************************************************)
EXTENDS Integers, Sequences, FiniteSets, TLC

(* ---------------------------------------------------------------- bounds *)

\* Longest standard output, in symbols, of a run in the life-cycle model.
MaxRunOut == 1

\* Longest standard output, in symbols, in the parsing model.
MaxOut == 5

\* GetIPs calls followed on one Command.
MaxCalls == 2

\* Clock ticks one call is followed for.
MaxTicks == 2

\* The most directive lines a dispenser handed to UnmarshalCaddyfile holds.
MaxDirectives == 2

(* ------------------------------------------------------------------ text *)

Space == {" ", "\n"}

Comma == ","

ValidWords == {"8.8.8.8", "192.168.1.1", "2001:4860:4860::8888"}

Words == ValidWords \cup {"invalid-ip"}

Alphabet == Space \cup {Comma} \cup Words

\* No two words are adjacent: a word is a maximal run of other bytes.
IsText(t) ==
    \A i \in 1..(Len(t) - 1) : ~(t[i] \in Words /\ t[i + 1] \in Words)

RECURSIVE TextsOfLen(_)
TextsOfLen(n) ==
    IF n = 0 THEN {<<>>}
    ELSE {u \in {Append(t, ch) : t \in TextsOfLen(n - 1), ch \in Alphabet} :
            IsText(u)}

Texts(n) == UNION {TextsOfLen(k) : k \in 0..n}

\* strings.TrimSpace, from the left.
RECURSIVE TrimLeft(_)
TrimLeft(s) ==
    IF s # <<>> /\ Head(s) \in Space THEN TrimLeft(Tail(s)) ELSE s

\* strings.TrimSpace, from the right.
RECURSIVE TrimRight(_)
TrimRight(s) ==
    IF s # <<>> /\ s[Len(s)] \in Space
    THEN TrimRight(SubSeq(s, 1, Len(s) - 1))
    ELSE s

\* strings.TrimSpace.
TrimSpace(s) == TrimRight(TrimLeft(s))

\* Index of the first comma of s, 0 when it has none.
FirstComma(s) ==
    IF \E i \in 1..Len(s) : s[i] = Comma
    THEN CHOOSE i \in 1..Len(s) :
            s[i] = Comma /\ \A j \in 1..(i - 1) : s[j] # Comma
    ELSE 0

\* strings.Split(s, ","): the pieces between the commas, the empty ones
\* kept; a text with no comma, the empty text too, is one piece.
RECURSIVE Split(_)
Split(s) ==
    LET i == FirstComma(s)
    IN  IF i = 0 THEN <<s>>
        ELSE <<SubSeq(s, 1, i - 1)>> \o Split(SubSeq(s, i + 1, Len(s)))

(* ------------------------------------------------------------- addresses *)

\* A netip.Addr: its width in bits and its value, one number per group.
NoAddr == [bits |-> 0, val |-> <<>>]

Addr4(a, b, c, d) == [bits |-> 32, val |-> <<a, b, c, d>>]

Addr6(g) == [bits |-> 128, val |-> g]

Google4 == Addr4(8, 8, 8, 8)

Private4 == Addr4(192, 168, 1, 1)

Google6 == Addr6(<<8193, 18528, 18528, 0, 0, 0, 0, 34952>>)

\* netip.ParseAddr: only a text that is one well-formed literal parses;
\* white space inside the text, a name, or anything else is an error.
ParseAddr(ipStr) ==
    IF Len(ipStr) = 1 /\ ipStr[1] \in ValidWords
    THEN [ok |-> TRUE,
          addr |-> CASE ipStr[1] = "8.8.8.8" -> Google4
                     [] ipStr[1] = "192.168.1.1" -> Private4
                     [] ipStr[1] = "2001:4860:4860::8888" -> Google6]
    ELSE [ok |-> FALSE, addr |-> NoAddr]

\* netip.Addr.Is4.
Is4(addr) == addr.bits = 32

\* netip.Addr.Is6.
Is6(addr) == addr.bits = 128

(* -------------------------------------------------------------- settings *)

\* A *bool: nil, or a pointer to a value.
NilPtr == <<>>

Ptr(v) == <<v>>

Deref(p) == p[1]

\* The range policies a caller may pass: each is the set of addresses the
\* policy contains.  The first stands for the default policy (no private
\* address), the second for a policy that names a private network.
RangePolicies == {{Google4, Google6}, {Private4}}

\* The dynamicdns.IPSettings a caller may pass.
IPSettings ==
    [IPv4 : {NilPtr, Ptr(TRUE), Ptr(FALSE)},
     IPv6 : {NilPtr, Ptr(TRUE), Ptr(FALSE)},
     IPRanges : RangePolicies]

\* The settings the life-cycle model calls GetIPs with: each family left
\* unset or disabled, under the first range policy.
RunSettings ==
    {s \in IPSettings : /\ s.IPv4 # Ptr(TRUE)
                        /\ s.IPv6 # Ptr(TRUE)
                        /\ Google4 \in s.IPRanges}

\* IPSettings.V4Enabled: enabled unless explicitly disabled.
V4Enabled(s) == s.IPv4 = NilPtr \/ Deref(s.IPv4)

\* IPSettings.V6Enabled.
V6Enabled(s) == s.IPv6 = NilPtr \/ Deref(s.IPv6)

\* IPSettings.Contains.
Contains(s, addr) == addr \in s.IPRanges

(* ---------------------------------------------------------------- errors *)

\* An error value: its kind, and what its message names.
NoErr == [kind |-> "nil", name |-> <<>>, code |-> 0, token |-> <<>>]

\* *exec.Error: the executable was not found; the message names it.
ExecError(name) ==
    [kind |-> "exec.Error", name |-> name, code |-> 0, token |-> <<>>]

\* ctx.Err(): "context canceled" or "context deadline exceeded".
CtxError(e) == [kind |-> e, name |-> <<>>, code |-> 0, token |-> <<>>]

\* *exec.ExitError: "exit status <code>", or "signal: killed" (code -1).
ExitError(code) ==
    [kind |-> "exec.ExitError", name |-> <<>>, code |-> code, token |-> <<>>]

\* fmt.Errorf("command %s exited with: %d", c.Cmd, exitCode).
ExitedWith(name, code) ==
    [kind |-> "command exited with", name |-> name, code |-> code,
     token |-> <<>>]

\* fmt.Errorf("invalid IP: %s", ipStr).
InvalidIP(ipStr) ==
    [kind |-> "invalid IP", name |-> <<>>, code |-> 0, token |-> ipStr]

\* What GetIPs returns: a list (nil or not) and an error.
NoRet == [isNil |-> TRUE, ips |-> <<>>, err |-> NoErr]

Failure(err) == [isNil |-> TRUE, ips |-> <<>>, err |-> err]

Success(out) == [isNil |-> FALSE, ips |-> out, err |-> NoErr]

(* ------------------------------------------------------ parse and filter *)

\* The token taken without trimming it.
TokenOfUntrimmed(piece) == piece

\* The token of one piece of the output.
TokenOf(piece) == TrimSpace(piece)

\* No token is skipped.
SkipTokenNever(ipStr) == FALSE

\* Whether the loop skips a token.
SkipToken(ipStr) == ipStr = <<>>

\* The filter without the range gate.
KeepIgnoringRanges(s, addr) ==
    IF V4Enabled(s) /\ Is4(addr) THEN TRUE
    ELSE IF V6Enabled(s) /\ Is6(addr) THEN TRUE
    ELSE FALSE

\* The filter with the two family flags exchanged.
KeepSwappedFamilies(s, addr) ==
    IF V6Enabled(s) /\ Is4(addr) /\ Contains(s, addr) THEN TRUE
    ELSE IF V4Enabled(s) /\ Is6(addr) /\ Contains(s, addr) THEN TRUE
    ELSE FALSE

\* The two filter branches of the loop: the address is appended when its
\* family is enabled and the range policy contains it.
Keep(s, addr) ==
    IF V4Enabled(s) /\ Is4(addr) /\ Contains(s, addr) THEN TRUE
    ELSE IF V6Enabled(s) /\ Is6(addr) /\ Contains(s, addr) THEN TRUE
    ELSE FALSE

\* The error returned together with the addresses collected so far.
OnInvalidPartial(ipStr, out) ==
    [isNil |-> FALSE, ips |-> out, err |-> InvalidIP(ipStr)]

\* What the loop does with a token that does not parse.
OnInvalid(ipStr, out) == Failure(InvalidIP(ipStr))

\* The loop over ipArr from index i, with out collected so far.
RECURSIVE ParseLoop(_, _, _, _)
ParseLoop(ipArr, i, out, s) ==
    IF i > Len(ipArr) THEN Success(out)
    ELSE LET ipStr == TokenOf(ipArr[i])
             r == ParseAddr(ipStr)
         IN  IF SkipToken(ipStr) THEN ParseLoop(ipArr, i + 1, out, s)
             ELSE IF ~r.ok THEN OnInvalid(ipStr, out)
             ELSE ParseLoop(ipArr, i + 1,
                            IF Keep(s, r.addr) THEN Append(out, r.addr)
                            ELSE out,
                            s)

\* The pieces the loop runs over.
IpArr(out) == Split(TrimSpace(out))

\* GetIPs failing on any standard error output, as the older GetIPs of the
\* file does.
AfterRunStrictStderr(name, err, code, out, errText, s) ==
    IF err # NoErr THEN Failure(err)
    ELSE IF code # 0 \/ errText # "" THEN Failure(ExitedWith(name, code))
    ELSE ParseLoop(IpArr(out), 1, <<>>, s)

\* GetIPs without the check of the error of cmd.Run.
AfterRunUnchecked(name, err, code, out, errText, s) ==
    IF code # 0 THEN Failure(ExitedWith(name, code))
    ELSE ParseLoop(IpArr(out), 1, <<>>, s)

\* GetIPs from the return of cmd.Run on.
AfterRun(name, err, code, out, errText, s) ==
    IF err # NoErr THEN Failure(err)
    ELSE IF code # 0 THEN Failure(ExitedWith(name, code))
    ELSE ParseLoop(IpArr(out), 1, <<>>, s)

(* ----------------------------------------------------------- the Command *)

\* caddy.Duration(30 * time.Second), in ticks of the model's clock.
DefaultTimeout == 30

\* The executables the machine has; any other name fails exec.LookPath.
Executables == {<<"getip">>}

\* The commands a configuration may name.  A command, like an argument, is
\* a text: a list of pieces, each plain text or a placeholder in braces.
Commands == {<<"getip">>, <<"nonexistent-command">>, <<"{nope}", "getip">>}

\* The argument lists a configuration may give.  An argument is a text:
\* one made of a placeholder alone, one with plain text before a
\* placeholder.
ArgLists == {<<>>, << <<"{nope}">>, <<"os=", "{system.os}">> >>}

\* The timeouts a configuration may give: none, or a duration.
ConfigTimeouts == {NilPtr, Ptr(-1), Ptr(0), Ptr(1), Ptr(2)}

\* The placeholders a text may hold.
Placeholders == {"{nope}", "{system.os}"}

\* The placeholders the replacer of caddy.NewReplacer() resolves, and the
\* value it gives each: runtime.GOOS for {system.os}.
KnownPlaceholders == {"{system.os}"}

PlaceholderValue(piece) == CASE piece = "{system.os}" -> "linux"

IsPlaceholder(piece) == piece \in Placeholders

\* What replacer.ReplaceAll(arg, "") writes for one placeholder: its value,
\* or nothing when the replacer does not know it.
Replacement(piece) ==
    IF piece \in KnownPlaceholders THEN <<PlaceholderValue(piece)>> ELSE <<>>

\* replacer.ReplaceAll(arg, ""): every placeholder gives way to its
\* replacement; plain text is kept.
RECURSIVE ReplaceAll(_)
ReplaceAll(arg) ==
    IF arg = <<>> THEN <<>>
    ELSE IF IsPlaceholder(Head(arg))
         THEN Replacement(Head(arg)) \o ReplaceAll(Tail(arg))
    ELSE <<Head(arg)>> \o ReplaceAll(Tail(arg))

\* The expanded arguments without those that expand to the empty text.
ExpandedArgsNonEmpty(args) ==
    SelectSeq([i \in 1..Len(args) |-> ReplaceAll(args[i])],
              LAMBDA a : a # <<>>)

\* The expandedArgs of GetIPs.
ExpandedArgs(args) == [i \in 1..Len(args) |-> ReplaceAll(args[i])]

\* The name exec.CommandContext is given: c.Cmd as configured.
CommandName(cc) == cc.Cmd

\* The name of the directive, the first token of its line.
Directive == <<"command">>

\* The lines a Caddyfile may hold for the Command: the directive's name,
\* then the tokens that follow it on the line, each token a text.
DirectiveLines ==
    {<<Directive>>} \cup
    {<<Directive, n>> \o args : n \in Commands, args \in ArgLists}

\* The dispensers UnmarshalCaddyfile may be given: the directive lines
\* not yet consumed.
Dispensers == UNION {[1..n -> DirectiveLines] : n \in 1..MaxDirectives}

\* new(Command): the zero value UnmarshalCaddyfile fills in.
ZeroCommand ==
    [Cmd |-> <<>>, Args |-> <<>>, Dir |-> "", Timeout |-> NilPtr,
     logger |-> FALSE]

\* d.NextArg(): whether a token follows the directive's name on its line.
NextArg(line) == Len(line) >= 2

\* d.Val() after d.NextArg(): the token after the directive's name.
Val(line) == line[2]

\* The remaining tokens read without stepping over the program token.
RemainingArgsFromProgram(line) == SubSeq(line, 2, Len(line))

\* d.RemainingArgs() after d.NextArg(): the tokens after the program
\* token, in the order of the line.
RemainingArgs(line) == SubSeq(line, 3, Len(line))

\* The loop of UnmarshalCaddyfile over the directive lines: the Command it
\* leaves, the lines it has not consumed, and whether it returned
\* d.ArgErr().
RECURSIVE UnmarshalLoop(_, _)
UnmarshalLoop(lines, cc) ==
    IF lines = <<>> THEN [c |-> cc, d |-> lines, argErr |-> FALSE]
    ELSE IF ~NextArg(Head(lines)) THEN [c |-> cc, d |-> lines, argErr |-> TRUE]
    ELSE UnmarshalLoop(Tail(lines),
                       [cc EXCEPT !.Cmd = Val(Head(lines)),
                                  !.Args = RemainingArgs(Head(lines))])

\* Provision keeping a timeout of zero.
ProvisionTimeoutStrict(t) ==
    IF t = NilPtr \/ Deref(t) < 0 THEN Ptr(DefaultTimeout) ELSE t

\* The timeout Provision leaves.
ProvisionTimeout(t) ==
    IF t = NilPtr \/ Deref(t) <= 0 THEN Ptr(DefaultTimeout) ELSE t

\* The timeout the test helper setupCommand leaves.
SetupTimeout(t) == IF t = NilPtr THEN Ptr(DefaultTimeout) ELSE t

\* Whether GetIPs puts a deadline on the context.
HasDeadline(t) == t # NilPtr /\ Deref(t) > 0

\* Whether the "running command" log call can be made: it dereferences
\* c.Timeout and calls a method of c.logger.
CanLog(cc) == cc.Timeout # NilPtr /\ cc.logger

(* --------------------------------------------------------------- the run *)

\* What a command may write to standard error.
Stderrs == {"", "warning"}

\* The exit codes of a command that ends by itself.
ExitCodes == {0, 1, 2}

\* The exit code of a killed process: -1 when a signal ended it (POSIX),
\* 1 where the kill is a TerminateProcess with that code (Windows).
KillCodes == {-1, 1}

\* The error cmd.Run returns for a process that ended with this code.
WaitErr(code) == IF code = 0 THEN NoErr ELSE ExitError(code)

\* The error cmd.Run returns without starting a process, if any: the
\* LookPath error first, then the error of a context already done.
StartErr(name, ctxe) ==
    IF name \notin Executables THEN ExecError(name)
    ELSE IF ctxe # "" THEN CtxError(ctxe)
    ELSE NoErr

\* The timeout context when no cancel is deferred.
ReleasedNever(t) == t

\* The state of the timeout context once the deferred cancel has run.
Released(t) == IF t = "armed" THEN "released" ELSE t

VARIABLES
    d,            \* the Caddyfile dispenser: the directive lines not yet read
    c,            \* the Command: Cmd, Args, Dir, Timeout, logger
    provisioned,  \* whether Provision has run
    pc,           \* where the Command is: caddyfile, rejected, parsed, new,
                  \* idle, or inside GetIPs
    calls,        \* GetIPs calls that have returned
    settings,     \* the IPSettings of the call
    ctxErr,       \* ctx.Err() of the call's context, "" while it is live
    timer,        \* the timeout context: none, armed, released
    elapsed,      \* clock ticks since the call began
    cmd,          \* what exec.CommandContext was given
    proc,         \* the subprocess: none, running, exited, killed
    exitCode,     \* cmd.ProcessState.ExitCode()
    stdout,       \* the captured standard output
    stderr,       \* the captured standard error
    runErr,       \* what cmd.Run returned
    ret,          \* what GetIPs returned
    warned        \* whether the call logged the stderr warning

vars == <<d, c, provisioned, pc, calls, settings, ctxErr, timer, elapsed, cmd,
          proc, exitCode, stdout, stderr, runErr, ret, warned>>

NoCmd == [Path |-> <<>>, Args |-> <<>>, Dir |-> ""]

NoSettings == [IPv4 |-> NilPtr, IPv6 |-> NilPtr, IPRanges |-> {}]

\* The per-call state between calls.
CallIdle ==
    /\ settings = NoSettings
    /\ ctxErr = ""
    /\ timer = "none"
    /\ elapsed = 0
    /\ cmd = NoCmd
    /\ proc = "none"
    /\ exitCode = 0
    /\ stdout = <<>>
    /\ stderr = ""
    /\ runErr = NoErr
    /\ ret = NoRet
    /\ warned = FALSE

\* A Command as the JSON configuration loader leaves it, or a new Command
\* about to read its Caddyfile directive.
Init ==
    /\ \/ /\ pc = "new"
          /\ d = <<>>
          /\ c \in [Cmd : Commands, Args : ArgLists, Dir : {""},
                    Timeout : ConfigTimeouts, logger : {FALSE}]
       \/ /\ pc = "caddyfile"
          /\ d \in Dispensers
          /\ c = ZeroCommand
    /\ provisioned = FALSE
    /\ calls = 0
    /\ CallIdle

(* --------------------------------------------------------------- actions *)

\* UnmarshalCaddyfile: read the directive lines into the Command; a line
\* without a program token is a configuration error, and a configuration
\* that fails to load is discarded.
UnmarshalCaddyfile ==
    /\ pc = "caddyfile"
    /\ LET r == UnmarshalLoop(d, c)
       IN  /\ c' = r.c
           /\ d' = r.d
           /\ pc' = IF r.argErr THEN "rejected" ELSE "parsed"
    /\ UNCHANGED <<provisioned, calls, settings, ctxErr, timer, elapsed, cmd,
                   proc, exitCode, stdout, stderr, runErr, ret, warned>>

\* Provision: attach the logger and resolve the timeout.
Provision ==
    /\ pc \in {"new", "parsed"}
    /\ c' = [c EXCEPT !.logger = TRUE, !.Timeout = ProvisionTimeout(@)]
    /\ provisioned' = TRUE
    /\ pc' = "idle"
    /\ UNCHANGED <<d, calls, settings, ctxErr, timer, elapsed, cmd, proc,
                   exitCode, stdout, stderr, runErr, ret, warned>>

\* setupCommand, the tests' stand-in for Provision.
setupCommand ==
    /\ pc \in {"new", "parsed"}
    /\ c' = [c EXCEPT !.logger = TRUE, !.Timeout = SetupTimeout(@)]
    /\ pc' = "idle"
    /\ UNCHANGED <<d, provisioned, calls, settings, ctxErr, timer, elapsed, cmd,
                   proc, exitCode, stdout, stderr, runErr, ret, warned>>

\* Code of the package gives a Command its logger and nothing else, as the
\* first statement of setupCommand does.
AttachLogger ==
    /\ pc \in {"new", "parsed"}
    /\ c' = [c EXCEPT !.logger = TRUE]
    /\ pc' = "idle"
    /\ UNCHANGED <<d, provisioned, calls, settings, ctxErr, timer, elapsed,
                   cmd, proc, exitCode, stdout, stderr, runErr, ret, warned>>

\* GetIPs up to cmd.Run: expand the arguments, put the deadline on the
\* context, build the command, log.  The log call panics on a nil Timeout
\* or logger; the deferred cancel runs while the panic unwinds.
GetIPsCall(s) ==
    /\ pc \in {"new", "parsed", "idle"}
    /\ calls < MaxCalls
    /\ settings' = s
    /\ cmd' = [Path |-> CommandName(c), Args |-> ExpandedArgs(c.Args),
               Dir |-> c.Dir]
    /\ LET armed == IF HasDeadline(c.Timeout) THEN "armed" ELSE "none"
       IN  IF CanLog(c)
           THEN timer' = armed /\ pc' = "run"
           ELSE timer' = Released(armed) /\ pc' = "panicked"
    /\ UNCHANGED <<d, c, provisioned, calls, ctxErr, elapsed, proc, exitCode,
                   stdout, stderr, runErr, ret, warned>>

\* cmd.Run starts the process, or returns at once with the reason it
\* cannot.
Start ==
    /\ pc = "run"
    /\ LET e == StartErr(cmd.Path, ctxErr)
       IN  IF e # NoErr
           THEN runErr' = e /\ pc' = "ran" /\ proc' = proc
           ELSE runErr' = runErr /\ pc' = "wait" /\ proc' = "running"
    /\ UNCHANGED <<d, c, provisioned, calls, settings, ctxErr, timer, elapsed,
                   cmd, exitCode, stdout, stderr, ret, warned>>

\* Time passes, but not past an armed deadline: the deadline fires first.
\* Time is followed while the call's context is live.
Tick ==
    /\ pc \in {"run", "wait"}
    /\ ctxErr = ""
    /\ elapsed < MaxTicks
    /\ timer = "armed" => elapsed < Deref(c.Timeout)
    /\ elapsed' = elapsed + 1
    /\ UNCHANGED <<d, c, provisioned, pc, calls, settings, ctxErr, timer, cmd,
                   proc, exitCode, stdout, stderr, runErr, ret, warned>>

\* Whether the call's context can become done with this error now: the
\* caller may cancel at any time, the deadline passes when its time has.
Fires(e) ==
    \/ e = "context canceled"
    \/ /\ e = "context deadline exceeded"
       /\ timer = "armed"
       /\ elapsed >= Deref(c.Timeout)

CtxErrs == {"context canceled", "context deadline exceeded"}

\* The context is done before cmd.Run has started the process.
CtxDoneBeforeStart(e) ==
    /\ pc = "run"
    /\ ctxErr = ""
    /\ Fires(e)
    /\ ctxErr' = e
    /\ UNCHANGED <<d, c, provisioned, pc, calls, settings, timer, elapsed, cmd,
                   proc, exitCode, stdout, stderr, runErr, ret, warned>>

\* The context is done while the process runs: the process is killed and
\* cmd.Run returns with what it had written so far.
CtxDoneKills(e, code, out, errText) ==
    /\ pc = "wait"
    /\ proc = "running"
    /\ ctxErr = ""
    /\ Fires(e)
    /\ ctxErr' = e
    /\ proc' = "killed"
    /\ exitCode' = code
    /\ stdout' = out
    /\ stderr' = errText
    /\ runErr' = WaitErr(code)
    /\ pc' = "ran"
    /\ UNCHANGED <<d, c, provisioned, calls, settings, timer, elapsed, cmd, ret,
                   warned>>

\* The process ends by itself and cmd.Run returns.
ProcExit(code, out, errText) ==
    /\ pc = "wait"
    /\ proc = "running"
    /\ proc' = "exited"
    /\ exitCode' = code
    /\ stdout' = out
    /\ stderr' = errText
    /\ runErr' = WaitErr(code)
    /\ pc' = "ran"
    /\ UNCHANGED <<d, c, provisioned, calls, settings, ctxErr, timer, elapsed,
                   cmd, ret, warned>>

\* How the run of the call ended, "none" for a run that exited with 0.
Cause ==
    IF proc = "killed" THEN "kill"
    ELSE IF proc = "exited" THEN (IF exitCode # 0 THEN "exit" ELSE "none")
    ELSE IF runErr.kind = "exec.Error" THEN "spawn"
    ELSE "ctx"

\* Whether GetIPs logs the warning about standard error.
Warns(err, code, errText) == err = NoErr /\ code = 0 /\ errText # ""

\* GetIPs from the return of cmd.Run to its own return; the deferred
\* cancel releases the timeout context.
GetIPsFinish ==
    /\ pc = "ran"
    /\ ret' = AfterRun(c.Cmd, runErr, exitCode, stdout, stderr, settings)
    /\ warned' = Warns(runErr, exitCode, stderr)
    /\ timer' = Released(timer)
    /\ pc' = "returned"
    /\ UNCHANGED <<d, c, provisioned, calls, settings, ctxErr, elapsed, cmd,
                   proc, exitCode, stdout, stderr, runErr>>

\* The caller has the result; the Command is ready for the next call.
CallDone ==
    /\ pc = "returned"
    /\ pc' = "idle"
    /\ calls' = calls + 1
    /\ settings' = NoSettings
    /\ ctxErr' = ""
    /\ timer' = "none"
    /\ elapsed' = 0
    /\ cmd' = NoCmd
    /\ proc' = "none"
    /\ exitCode' = 0
    /\ stdout' = <<>>
    /\ stderr' = ""
    /\ runErr' = NoErr
    /\ ret' = NoRet
    /\ warned' = FALSE
    /\ UNCHANGED <<d, c, provisioned>>

Next ==
    \/ UnmarshalCaddyfile
    \/ Provision
    \/ setupCommand
    \/ AttachLogger
    \/ \E s \in RunSettings : GetIPsCall(s)
    \/ Start
    \/ Tick
    \/ \E e \in CtxErrs : CtxDoneBeforeStart(e)
    \/ \E e \in CtxErrs, code \in KillCodes, out \in Texts(MaxRunOut),
          errText \in Stderrs : CtxDoneKills(e, code, out, errText)
    \/ \E code \in ExitCodes, out \in Texts(MaxRunOut), errText \in Stderrs :
          ProcExit(code, out, errText)
    \/ GetIPsFinish
    \/ CallDone

Spec == Init /\ [][Next]_vars

(* ------------------------------------------------------ the parsing model *)

\* A provisioned Command whose run has just exited with code 0: every
\* output the command may have written, under every settings.
InitParse ==
    /\ d = <<>>
    /\ c = [Cmd |-> <<"getip">>, Args |-> <<>>, Dir |-> "",
            Timeout |-> Ptr(DefaultTimeout), logger |-> TRUE]
    /\ provisioned = TRUE
    /\ pc = "ran"
    /\ calls = 0
    /\ settings \in IPSettings
    /\ ctxErr = ""
    /\ timer = "armed"
    /\ elapsed = 0
    /\ cmd = [Path |-> <<"getip">>, Args |-> <<>>, Dir |-> ""]
    /\ proc = "exited"
    /\ exitCode = 0
    /\ stdout \in Texts(MaxOut)
    /\ stderr \in Stderrs
    /\ runErr = NoErr
    /\ ret = NoRet
    /\ warned = FALSE

NextParse == GetIPsFinish

SpecParse == InitParse /\ [][NextParse]_vars

(* ------------------------------------------------------------ properties *)

Returned == pc = "returned"

Succeeded == Returned /\ ret.err = NoErr

\* The tokens of an output: its pieces between commas, trimmed, the empty
\* ones left out.
NonEmptyTokens(out) ==
    LET pieces == Split(TrimSpace(out))
        toks == [i \in 1..Len(pieces) |-> TrimSpace(pieces[i])]
        NonEmpty(t) == t # <<>>
    IN  SelectSeq(toks, NonEmpty)

\* A token that is a well-formed address literal.
WellFormed(t) == Len(t) = 1 /\ t[1] \in ValidWords

\* The address a well-formed literal denotes.
AddrOfWord(w) ==
    CASE w = "8.8.8.8" -> Addr4(8, 8, 8, 8)
      [] w = "192.168.1.1" -> Addr4(192, 168, 1, 1)
      [] w = "2001:4860:4860::8888" ->
            Addr6(<<8193, 18528, 18528, 0, 0, 0, 0, 34952>>)

\* The addresses of a sequence of well-formed tokens.
AddrsOf(toks) == [i \in 1..Len(toks) |-> AddrOfWord(toks[i][1])]

\* The two gates: the family is not explicitly disabled, and the range
\* policy contains the address.
FamilyEnabled(s, a) ==
    IF a.bits = 32 THEN s.IPv4 # Ptr(FALSE) ELSE s.IPv6 # Ptr(FALSE)

Passes(s, a) == FamilyEnabled(s, a) /\ a \in s.IPRanges

\* The subsequence of addrs that passes both gates.
Filtered(s, addrs) ==
    LET Pass(a) == Passes(s, a)
    IN  SelectSeq(addrs, Pass)

\* C1: the list a successful GetIPs returns is exactly the subsequence of
\* the addresses parsed from the output, in output order and with every
\* occurrence kept, of those whose family is enabled and which the range
\* policy contains.
C1_ReturnsFilteredSubsequence ==
    Succeeded =>
        /\ ~ret.isNil
        /\ \A i \in 1..Len(NonEmptyTokens(stdout)) :
              WellFormed(NonEmptyTokens(stdout)[i])
        /\ ret.ips = Filtered(settings, AddrsOf(NonEmptyTokens(stdout)))

\* A successful call that kept two occurrences of one address and dropped
\* another address.
C1_Witness ==
    /\ Succeeded
    /\ Len(ret.ips) = 2
    /\ ret.ips[1] = ret.ips[2]
    /\ Len(NonEmptyTokens(stdout)) = 3

\* The first token of an output that is not a well-formed literal.
HasMalformed(out) ==
    \E i \in 1..Len(NonEmptyTokens(out)) : ~WellFormed(NonEmptyTokens(out)[i])

FirstMalformed(out) ==
    LET toks == NonEmptyTokens(out)
        i == CHOOSE k \in 1..Len(toks) :
                /\ ~WellFormed(toks[k])
                /\ \A j \in 1..(k - 1) : WellFormed(toks[j])
    IN  toks[i]

\* C2: parsing is all or nothing: when some non-empty trimmed token of the
\* output of a run that exited with 0 is not a well-formed literal, GetIPs
\* returns no list and an "invalid IP" error naming the first such token,
\* whatever the other tokens and the settings are.
C2_AllOrNothing ==
    (Returned /\ runErr = NoErr /\ exitCode = 0 /\ HasMalformed(stdout)) =>
        /\ ret.isNil
        /\ ret.ips = <<>>
        /\ ret.err.kind = "invalid IP"
        /\ ret.err.token = FirstMalformed(stdout)

\* A failed call whose output had a valid token before and after the
\* malformed one.
C2_Witness ==
    /\ Returned
    /\ ret.err.kind = "invalid IP"
    /\ Len(NonEmptyTokens(stdout)) = 3
    /\ WellFormed(NonEmptyTokens(stdout)[1])
    /\ ~WellFormed(NonEmptyTokens(stdout)[2])
    /\ WellFormed(NonEmptyTokens(stdout)[3])

\* How many addresses of a width a list holds.
CountBits(addrs, bits) ==
    Cardinality({i \in 1..Len(addrs) : addrs[i].bits = bits})

\* The addresses of a width that the output of a successful call held and
\* the range policy contains.
InRange(out, s, bits) ==
    LET addrs == AddrsOf(NonEmptyTokens(out))
    IN  Cardinality({i \in 1..Len(addrs) :
                        addrs[i].bits = bits /\ addrs[i] \in s.IPRanges})

\* C7: with the IPv4 family disabled the returned list holds no IPv4
\* address, with the IPv6 family disabled no IPv6 address, and the
\* addresses of a family that is enabled are still returned.
C7_DisabledFamilyAbsent ==
    Succeeded =>
        /\ settings.IPv4 = Ptr(FALSE) => CountBits(ret.ips, 32) = 0
        /\ settings.IPv6 = Ptr(FALSE) => CountBits(ret.ips, 128) = 0
        /\ settings.IPv4 # Ptr(FALSE) =>
              CountBits(ret.ips, 32) = InRange(stdout, settings, 32)
        /\ settings.IPv6 # Ptr(FALSE) =>
              CountBits(ret.ips, 128) = InRange(stdout, settings, 128)

\* IPv4 disabled, an output with two IPv4 addresses and an IPv6 one, and
\* only the IPv6 address returned.
C7_Witness ==
    /\ Succeeded
    /\ settings.IPv4 = Ptr(FALSE)
    /\ CountBits(AddrsOf(NonEmptyTokens(stdout)), 32) = 2
    /\ ret.ips = <<Addr6(<<8193, 18528, 18528, 0, 0, 0, 0, 34952>>)>>

\* The output with its white space taken out.
Unspaced(out) ==
    LET NotSpace(ch) == ch \notin Space
    IN  SelectSeq(out, NotSpace)

\* A list of valid addresses joined by commas: word, comma, word, ...
IsList(u) ==
    /\ Len(u) % 2 = 1
    /\ \A i \in 1..Len(u) :
          IF i % 2 = 1 THEN u[i] \in ValidWords ELSE u[i] = Comma

\* The addresses of such a list, in order.
ListAddrs(u) == [i \in 1..((Len(u) + 1) \div 2) |-> AddrOfWord(u[2 * i - 1])]

\* C8: white space around the tokens and around the whole output does not
\* change what is parsed: an output that is a comma joined list of N valid
\* addresses once its white space is taken out yields those N addresses in
\* order (those that pass the filter; all N when both families are enabled
\* and the range policy contains them).
C8_WhitespaceInvariant ==
    (Returned /\ runErr = NoErr /\ exitCode = 0 /\ IsList(Unspaced(stdout))) =>
        /\ ret.err = NoErr
        /\ ret.ips = Filtered(settings, ListAddrs(Unspaced(stdout)))

\* Two addresses returned from an output with white space before the
\* first token and inside the list.
C8_Witness ==
    /\ Succeeded
    /\ IsList(Unspaced(stdout))
    /\ Len(stdout) = 5
    /\ stdout[1] \in Space
    /\ stdout[3] \in Space
    /\ Len(ret.ips) = 2
    /\ ret.ips = ListAddrs(Unspaced(stdout))

\* An output of white space and commas only.
NoWords(out) == \A i \in 1..Len(out) : out[i] \in Space \cup {Comma}

\* C9: an output with no non-empty token (empty, white space only, or only
\* commas and white space) makes GetIPs succeed with an empty list, and a
\* token that is empty after trimming is never reported as invalid.
C9_EmptyOutputSucceeds ==
    /\ (Returned /\ runErr = NoErr /\ exitCode = 0 /\ NoWords(stdout)) =>
          ret = Success(<<>>)
    /\ (Returned /\ ret.err.kind = "invalid IP") => ret.err.token # <<>>

\* A successful empty result from an output of commas and white space.
C9_Witness ==
    /\ Succeeded
    /\ ret.ips = <<>>
    /\ Len(stdout) = 3
    /\ NoWords(stdout)
    /\ stdout[1] = Comma
    /\ stdout[2] \in Space

\* C6: a run that exits with 0 and wrote to standard error still succeeds:
\* the text is logged as a warning, the output is parsed and filtered as
\* ever, and the call does not fail because of it.
C6_StderrOnlyWarns ==
    (Returned /\ runErr = NoErr /\ exitCode = 0 /\ stderr # "") =>
        /\ warned
        /\ ret.err.kind \in {"nil", "invalid IP"}
        /\ ~HasMalformed(stdout) =>
              /\ ret.err = NoErr
              /\ ~ret.isNil
              /\ ret.ips = Filtered(settings, AddrsOf(NonEmptyTokens(stdout)))

\* A call that returned an address although the command wrote to standard
\* error.
C6_Witness ==
    /\ Succeeded
    /\ stderr # ""
    /\ warned
    /\ Len(ret.ips) >= 1

\* C3: when the process starts and exits with a non-zero code, GetIPs
\* returns no addresses and an error that identifies both the command
\* name and the exit code.
C3_ExitErrorNamesCommandAndCode ==
    (Returned /\ proc = "exited" /\ exitCode # 0) =>
        /\ ret.isNil
        /\ ret.err # NoErr
        /\ ret.err.name = c.Cmd
        /\ ret.err.code = exitCode

\* The errors GetIPs gives for a way of failing, over every run of the
\* Command that fails that way.
ErrsOf(cause) ==
    CASE cause = "spawn" ->
            {AfterRun(n, StartErr(n, ""), 0, <<>>, "", settings).err :
                n \in Commands \ Executables}
      [] cause = "exit" ->
            {AfterRun(c.Cmd, WaitErr(k), k, <<>>, "", settings).err :
                k \in ExitCodes \ {0}}
      [] cause = "kill" ->
            {AfterRun(c.Cmd, WaitErr(k), k, <<>>, "", settings).err :
                k \in KillCodes}

KindsOf(cause) == {e.kind : e \in ErrsOf(cause)}

C5_KilledAndReclaimed ==
    /\ ctxErr # "" => proc # "running"
    /\ (Returned /\ proc = "killed") => (ret.isNil /\ ret.err # NoErr)
    /\ pc \in {"returned", "panicked", "idle", "new", "parsed", "caddyfile",
             "rejected"} =>
          (proc # "running" /\ timer # "armed")

\* A call that returned after its process was killed at the deadline,
\* with an address already written to its output.
C5_Witness ==
    /\ Returned
    /\ proc = "killed"
    /\ ctxErr = "context deadline exceeded"
    /\ timer = "released"
    /\ stdout = <<"8.8.8.8">>
    /\ ret.isNil
    /\ ret.err # NoErr

\* C10: Provision leaves the default of 30 seconds when the timeout was
\* unset or not positive and the configured value otherwise; from then on
\* the timeout is set and positive and no step, a GetIPs call or any
\* other, changes it.
C10_ProvisionResolvesTimeout ==
    [][/\ (~provisioned /\ provisioned') =>
              c'.Timeout = IF c.Timeout = NilPtr \/ Deref(c.Timeout) <= 0
                           THEN Ptr(DefaultTimeout)
                           ELSE c.Timeout
       /\ provisioned' => (c'.Timeout # NilPtr /\ Deref(c'.Timeout) > 0)
       /\ provisioned => c'.Timeout = c.Timeout]_vars

\* A provisioned Command holding the default timeout after two calls.
C10_Witness ==
    /\ provisioned
    /\ calls >= 2
    /\ c.Timeout = Ptr(DefaultTimeout)

\* C11: loading the directive "command <program> [args...]" sets the
\* executable to the program token and the arguments to the tokens after
\* it, in their order, none when there are none (of several directives
\* the last one counts); a directive with no program token is rejected
\* when the configuration loads, and nothing is run for it afterwards.
C11_DirectiveSetsCmdAndArgs ==
    [][/\ pc = "caddyfile" =>
              IF \E i \in 1..Len(d) : Len(d[i]) < 2
              THEN pc' = "rejected"
              ELSE LET line == d[Len(d)]
                   IN  /\ pc' = "parsed"
                       /\ c'.Cmd = line[2]
                       /\ Len(c'.Args) = Len(line) - 2
                       /\ \A i \in 1..Len(c'.Args) : c'.Args[i] = line[i + 2]
       /\ pc = "rejected" =>
              (pc' = "rejected" /\ proc' = "none" /\ cmd' = NoCmd)]_vars

\* A Command that has read a directive with a program and two different
\* arguments, and has kept their order.
C11_Witness ==
    /\ pc = "parsed"
    /\ d = <<>>
    /\ c.Cmd = <<"getip">>
    /\ c.Args = << <<"{nope}">>, <<"os=", "{system.os}">> >>

\* The text a template stands for once each placeholder has given way to
\* its value, the empty text when it has none.
Substituted(arg) ==
    LET vals == [k \in 1..Len(arg) |->
                    IF arg[k] \notin Placeholders THEN arg[k]
                    ELSE IF arg[k] \in KnownPlaceholders
                         THEN PlaceholderValue(arg[k])
                         ELSE ""]
        Some(v) == v # ""
    IN  SelectSeq(vals, Some)

\* Whether GetIPs has built its command in the current call.
Built == pc \in {"run", "wait", "ran", "returned", "panicked"}

\* C12: the expanded arguments are as many as the configured ones and in
\* their order, each the configured template with every placeholder
\* replaced by its value, the empty text when unresolved; the executable
\* handed to the spawner is the configured command unchanged, whatever
\* placeholders it holds; and the expansion itself makes no call fail.
C12_ArgsExpandedCommandUntouched ==
    Built =>
        /\ Len(cmd.Args) = Len(c.Args)
        /\ \A i \in 1..Len(c.Args) : cmd.Args[i] = Substituted(c.Args[i])
        /\ cmd.Path = c.Cmd
        /\ pc = "panicked" => ~CanLog(c)

\* A call whose command holds a placeholder and was looked up under that
\* very name, with an argument expanded to the empty text kept in place
\* and a known placeholder replaced by its value.
C12_Witness ==
    /\ Returned
    /\ c.Cmd = <<"{nope}", "getip">>
    /\ ret.err = ExecError(c.Cmd)
    /\ cmd.Args = << <<>>, <<"os=", "linux">> >>

\* C13: a GetIPs call on a Command that has a logger and no timeout sets
\* no deadline and goes on to run the process, returning addresses or an
\* error; it does not fail before the command is spawned.
C13_NilTimeoutReachesExecution ==
    (c.logger /\ c.Timeout = NilPtr /\ Built) =>
        /\ timer = "none"
        /\ pc # "panicked"

====
